---- MODULE Spec2Model ----
(***************************************************************************)
(* Model of the grocery tracker backend (src/backend/app.py): the three    *)
(* tables Item, ManualList and Transaction, and the route handlers.        *)
(* Request bodies are JSON objects; a JSON value is a tagged record so     *)
(* that null, numbers, strings and a missing key stay distinct.  A JSON    *)
(* number and a Float column hold an IEEE-754 double; the sums,            *)
(* differences and quotients of the handlers are computed on doubles,      *)
(* rounded to nearest, ties to even, as Python computes them.              *)
(*                                                                         *)
(* The server of app.run serves each request in a thread of its own, with  *)
(* a session of its own.  A step of a handler is one database round trip,  *)
(* a SELECT or a commit, together with the Python code that follows it up  *)
(* to the next round trip; the steps of the handlers in progress           *)
(* interleave.  SQLite serialises the commits, and a SELECT reads the      *)
(* committed rows.                                                         *)
(*                                                                         *)
(* Spec     : the server started on an empty database.                     *)
(* SpecRace : the server after POST /api/items                             *)
(*            {"name": "Milk", "max_qty": 10, "current_qty": 2} and        *)
(*            POST /api/manual-add {"name": "Salt"}.                       *)
(***************************************************************************)
EXTENDS Integers, Sequences, FiniteSets, TLC

VARIABLES items, manual, transactions, nreq, last, pc, req, sess

vars == <<items, manual, transactions, nreq, last, pc, req, sess>>

store == <<items, manual, transactions>>

\* Number of requests served in one behaviour.
MaxReqs == 2

-----------------------------------------------------------------------------
(* JSON values of a request body, and the Python conversions applied to them *)

\* A double is written with 13-bit limbs.
W == 2^13

\* The double n + (f[1]*W^3 + f[2]*W^2 + f[3]*W + f[4]) / 2^52, where n is its
\* floor and 0 <= f[k] < W.  Every double of magnitude 1 or more is of this
\* form (its unit in the last place is at least 2^-52), so are 0 and the sums
\* and differences of such doubles; n stays below W.
Dbl(n, f) == [t |-> "num", n |-> n, s |-> "", f |-> f]

\* An integer-valued JSON number.
Num(k) == Dbl(k, <<0, 0, 0, 0>>)

\* 1.73 and 6.8 as json parses them: 0x1.bae147ae147aep+0, 0x1.b333333333333p+2.
D1_73 == Dbl(1, <<5980, 1310, 5898, 1966>>)

D6_8 == Dbl(6, <<6553, 4915, 1638, 3276>>)

Absent == [t |-> "absent", n |-> 0, s |-> "", f |-> <<0, 0, 0, 0>>]

Null == [t |-> "null", n |-> 0, s |-> "", f |-> <<0, 0, 0, 0>>]

Str(x) == [t |-> "str", n |-> 0, s |-> x, f |-> <<0, 0, 0, 0>>]

JTrue == [t |-> "bool", n |-> 1, s |-> "", f |-> <<0, 0, 0, 0>>]

JFalse == [t |-> "bool", n |-> 0, s |-> "", f |-> <<0, 0, 0, 0>>]

IsNum(v) == v.t = "num"

IsInt(x) == x.f = <<0, 0, 0, 0>>

\* k in data
Has(data, k) == data[k].t # "absent"

\* data.get(k, default); data.get(k) is Get(data, k, Null)
Get(data, k, default) == IF Has(data, k) THEN data[k] ELSE default

\* float(v) returns; it raises TypeError on None and ValueError on a
\* non-numeric string (the only strings of the model).
FloatOk(v) == v.t \in {"num", "bool"}

float(v) == Dbl(v.n, v.f)

\* Python truth value: None, 0, "" and False are false.
Truthy(v) ==
    \/ v.t \in {"num", "bool"} /\ (v.n # 0 \/ ~IsInt(v))
    \/ v.t = "str" /\ v.s # ""

\* bool(v)
bool(v) == Truthy(v)

\* INTEGER PRIMARY KEY of SQLite: the largest rowid in the table plus one.
NextId(table) ==
    IF DOMAIN table = {} THEN 1
    ELSE (CHOOSE m \in DOMAIN table : \A k \in DOMAIN table : k <= m) + 1

RECURSIVE IdSeq(_)
\* Table.query.all(): the rows in rowid order.
IdSeq(S) ==
    IF S = {} THEN <<>>
    ELSE LET m == CHOOSE k \in S : \A j \in S : k <= j
         IN <<m>> \o IdSeq(S \ {m})

Transaction(item_id, change_amount, reason) ==
    [item_id |-> item_id, change_amount |-> change_amount, reason |-> reason]

-----------------------------------------------------------------------------
(* Python float arithmetic *)

\* x + y before rounding: the limbs are added with carry.
ExactSum(x, y) ==
    LET c4 == x.f[4] + y.f[4]
        c3 == x.f[3] + y.f[3] + c4 \div W
        c2 == x.f[2] + y.f[2] + c3 \div W
        c1 == x.f[1] + y.f[1] + c2 \div W
    IN Dbl(x.n + y.n + c1 \div W, <<c1 % W, c2 % W, c3 % W, c4 % W>>)

\* -x: the floor of -x is -n - 1 and its fraction 2^52 minus the fraction of x.
fneg(x) ==
    IF IsInt(x) THEN Num(-x.n)
    ELSE ExactSum(Dbl(-x.n - 1, [i \in 1..4 |-> W - 1 - x.f[i]]),
                  Dbl(0, <<0, 0, 0, 1>>))

fabs(x) == IF x.n < 0 THEN fneg(x) ELSE x

\* The exponent of a magnitude with integer part n >= 1: floor(log2 n).
Log2(n) ==
    LET s4 == IF n >= 2^16 THEN 16 ELSE 0
        n4 == n \div 2^s4
        s3 == IF n4 >= 2^8 THEN 8 ELSE 0
        n3 == n4 \div 2^s3
        s2 == IF n3 >= 2^4 THEN 4 ELSE 0
        n2 == n3 \div 2^s2
        s1 == IF n2 >= 2^2 THEN 2 ELSE 0
        n1 == n2 \div 2^s1
    IN s4 + s3 + s2 + s1 + (IF n1 >= 2 THEN 1 ELSE 0)

\* Round a magnitude to 53 significant bits, to nearest, ties to even: with
\* exponent e the unit in the last place is 2^(e-52), that is 2^e in f[4].
RoundEven(m) ==
    LET ulp == 2^Log2(m.n)
        r == m.f[4] % ulp
        down == Dbl(m.n, [m.f EXCEPT ![4] = @ - r])
        odd == (m.f[4] \div ulp) % 2 = 1
    IN IF 2 * r > ulp \/ (2 * r = ulp /\ odd)
       THEN ExactSum(down, Dbl(0, <<0, 0, 0, ulp>>)) ELSE down

fround(x) == IF x.n < 0 THEN fneg(RoundEven(fneg(x))) ELSE RoundEven(x)

\* x + y on floats
fadd(x, y) == fround(ExactSum(x, y))

\* x - y on floats
fsub(x, y) == fadd(x, fneg(y))

\* A magnitude in units of 2^-52, most significant limb first.
Ticks(m) == <<m.n, m.f[1], m.f[2], m.f[3], m.f[4]>>

BigLe(x, y) ==
    \/ x[1] < y[1]
    \/ x[1] = y[1] /\ x[2] < y[2]
    \/ x[1] = y[1] /\ x[2] = y[2] /\ x[3] < y[3]
    \/ x[1] = y[1] /\ x[2] = y[2] /\ x[3] = y[3] /\ x[4] < y[4]
    \/ x[1] = y[1] /\ x[2] = y[2] /\ x[3] = y[3] /\ x[4] = y[4] /\ x[5] <= y[5]

\* x - y for x >= y
BigSub(x, y) ==
    LET c5 == x[5] - y[5]
        c4 == x[4] - y[4] + c5 \div W
        c3 == x[3] - y[3] + c4 \div W
        c2 == x[2] - y[2] + c3 \div W
    IN <<x[1] - y[1] + c2 \div W, c2 % W, c3 % W, c4 % W, c5 % W>>

\* x * d for a limb d; the first limb takes the overflow.
BigMul(x, d) ==
    LET c5 == x[5] * d
        c4 == x[4] * d + c5 \div W
        c3 == x[3] * d + c4 \div W
        c2 == x[2] * d + c3 \div W
    IN <<x[1] * d + c2 \div W, c2 % W, c3 % W, c4 % W, c5 % W>>

BigLog2(x) ==
    IF x[1] > 0 THEN 52 + Log2(x[1])
    ELSE IF x[2] > 0 THEN 39 + Log2(x[2])
    ELSE IF x[3] > 0 THEN 26 + Log2(x[3])
    ELSE IF x[4] > 0 THEN 13 + Log2(x[4]) ELSE Log2(x[5])

\* F(e), with e evaluated once.
With(F(_), e) == CHOOSE y \in {F(v) : v \in {e}} : TRUE

\* x * 2^k
BigShl(x, k) ==
    LET j == k \div 13
        y == [i \in 1..6 |-> IF i + j <= 5 THEN x[i + j] ELSE 0]
        up == 2^(k % 13)
        dn == W \div up
    IN [i \in 1..5 |->
          (IF i = 1 THEN y[1] ELSE y[i] % dn) * up + y[i + 1] \div dn]

\* x scaled to 65 bits.
Norm(x) == With(LAMBDA k : BigShl(x, k), 64 - BigLog2(x))

\* The operands scaled to 65 bits, then a doubled if it is below b, so that
\* 1 <= a / b < 2; e is the exponent of the quotient.
Scale(x, y) ==
    With(LAMBDA n :
            IF BigLe(n[2], n[1]) THEN [a |-> n[1], b |-> n[2], e |-> n[3]]
            ELSE [a |-> BigMul(n[1], 2), b |-> n[2], e |-> n[3] - 1],
         <<Norm(x), Norm(y), BigLog2(x) - BigLog2(y)>>)

\* The quotient of the leading bits of r * W and of b: the next digit of r / b,
\* or that digit plus one.
Estimate(r, b) ==
    (r[1] * 2^17 + r[2] * 2^4 + r[3] \div 2^9) \div (b[1] * 2^4 + b[2] \div 2^9)

\* The digit and the remainder rw - digit * b, given p = est * b.
Correct(rw, b, est, p) ==
    IF BigLe(p, rw) THEN [d |-> est, r |-> BigSub(rw, p)]
    ELSE [d |-> est - 1, r |-> With(LAMBDA u : BigSub(b, u), BigSub(p, rw))]

\* The next 13 bits of the quotient r / b, for r < b, and the remainder.
Digit(r, b) ==
    With(LAMBDA est :
            With(LAMBDA p :
                    Correct(<<r[1] * W + r[2], r[3], r[4], r[5], 0>>, b, est, p),
                 BigMul(b, est)),
         Estimate(r, b))

RECURSIVE Digits(_, _, _)
\* k more digits of the quotient, after the digits q with remainder r.
Digits(s0, b, k) ==
    With(LAMBDA s :
            IF k = 0 THEN s
            ELSE With(LAMBDA t : Digits([q |-> Append(s.q, t.d), r |-> t.r], b, k - 1),
                      Digit(s.r, b)),
         s0)

\* The double sg * 2^e * (1 + q / 2^52), q incremented if the quotient is
\* rounded up.
Quotient(sg, e, q, up) ==
    LET c4 == q[4] + (IF up THEN 1 ELSE 0)
        c3 == q[3] + c4 \div W
        c2 == q[2] + c3 \div W
        c1 == q[1] + c2 \div W
    IN [sg |-> sg, e |-> e + c1 \div W,
        q |-> <<c1 % W, c2 % W, c3 % W, c4 % W>>]

\* |x| / |y| rounded to 53 significant bits, to nearest, ties to even: four
\* digits give the 52 bits after the leading one, and twice the last remainder
\* against b decides the rounding.
LongDiv(sg, x, y) ==
    With(LAMBDA s :
            With(LAMBDA d :
                    With(LAMBDA r2 :
                            Quotient(sg, s.e, d.q,
                                     ~BigLe(r2, s.b) \/ (r2 = s.b /\ d.q[4] % 2 = 1)),
                         BigMul(d.r, 2)),
                 Digits([q |-> <<>>, r |-> BigSub(s.a, s.b)], s.b, 4)),
         Scale(x, y))

\* x / y on floats, y nonzero
fdiv(x, y) ==
    IF x = Num(0) THEN [sg |-> 0, e |-> 0, q |-> <<0, 0, 0, 0>>]
    ELSE With(LAMBDA a :
                 With(LAMBDA b :
                         LongDiv(IF (x.n < 0) = (y.n < 0) THEN 1 ELSE -1, a, b),
                      Ticks(fabs(y))),
              Ticks(fabs(x)))

MagLe(p, q) ==
    \/ p.e < q.e
    \/ p.e = q.e /\ BigLe(<<0>> \o p.q, <<0>> \o q.q)

\* x <= y on floats
fle(x, y) ==
    \E p \in {x}, q \in {y} :
       IF p.sg # q.sg THEN p.sg < q.sg
       ELSE IF p.sg = 0 THEN TRUE
       ELSE IF p.sg = 1 THEN MagLe(p, q) ELSE MagLe(q, p)

\* x > 0
fpos(x) == x.n > 0 \/ (x.n = 0 /\ ~IsInt(x))

-----------------------------------------------------------------------------
(* Helper *)

is_low_noguard(item) ==
    IF ~(IsNum(item.max_qty) /\ IsNum(item.current_qty)
         /\ IsNum(item.threshold_percent)) THEN FALSE
    ELSE IF item.max_qty = Num(0) THEN FALSE
    ELSE fle(fdiv(item.current_qty, item.max_qty),
             fdiv(item.threshold_percent, Num(100)))

\* A None operand raises TypeError, which the handler swallows as False.
is_low(item) ==
    IF ~IsNum(item.max_qty) THEN FALSE
    ELSE IF ~fpos(item.max_qty) THEN FALSE
    ELSE IF ~(IsNum(item.current_qty) /\ IsNum(item.threshold_percent)) THEN FALSE
    ELSE fle(fdiv(item.current_qty, item.max_qty),
             fdiv(item.threshold_percent, Num(100)))

\* percent_left faults (TypeError) when max_qty is truthy and current_qty is None.
percent_left_ok(item) ==
    Truthy(item.max_qty) => IsNum(item.current_qty)

\* max(0, max_qty - current_qty), computed for low items only.
suggested_qty(item) ==
    IF fpos(fsub(item.max_qty, item.current_qty))
    THEN fsub(item.max_qty, item.current_qty) ELSE Num(0)

-----------------------------------------------------------------------------
(* Requests in progress and responses *)

\* The handlers that run at a time.
Workers == {1, 2}

NoBody == [items |-> <<>>, low |-> <<>>, auto |-> <<>>, manual |-> <<>>]

\* The n-th response of the server.
Response(op, status, id, body, n) ==
    [op |-> op, status |-> status, id |-> id, body |-> body, n |-> n]

Request(op, id, data) == [op |-> op, id |-> id, data |-> data]

NoRequest == Request("none", 0, Absent)

\* The session of a request: the row loaded by its SELECT (old), the object
\* as the handler has changed it (it), the values the handler has computed,
\* and whether the request has committed a change.
NoSession ==
    [old |-> Absent, it |-> Absent, added |-> Absent, auto |-> <<>>,
     committed |-> FALSE]

\* A worker takes the next request; the lowest free worker takes it.
Idle(w) ==
    /\ nreq < MaxReqs
    /\ pc[w] = "idle"
    /\ \A v \in Workers : v < w => pc[v] # "idle"

\* datetime.utcnow(), in units of requests.
Now == nreq + 1

\* The handler answers after its first round trip.
Serve(op, status, id, body) ==
    /\ nreq' = nreq + 1
    /\ last' = Response(op, status, id, body, last.n + 1)
    /\ UNCHANGED <<pc, req, sess>>

\* The handler goes on to another round trip.
Begin(w, to, r, s) ==
    /\ nreq' = nreq + 1
    /\ pc' = [pc EXCEPT ![w] = to]
    /\ req' = [req EXCEPT ![w] = r]
    /\ sess' = [sess EXCEPT ![w] = s]
    /\ last' = last

Goto(w, to, s) ==
    /\ pc' = [pc EXCEPT ![w] = to]
    /\ sess' = [sess EXCEPT ![w] = s]
    /\ UNCHANGED <<nreq, req, last>>

\* The handler answers; its session is removed.
Finish(w, status, id, body) ==
    /\ pc' = [pc EXCEPT ![w] = "idle"]
    /\ req' = [req EXCEPT ![w] = NoRequest]
    /\ sess' = [sess EXCEPT ![w] = NoSession]
    /\ nreq' = nreq
    /\ last' = Response(req[w].op, status, id, body, last.n + 1)

\* The UPDATE of a commit sets the columns whose value differs from the value
\* loaded; row is the row of that id at the commit.
Written(row, old, it) ==
    [k \in DOMAIN row |-> IF it[k] # old[k] THEN it[k] ELSE row[k]]

ItemOut(id) ==
    [id |-> id, max_qty |-> items[id].max_qty,
     current_qty |-> items[id].current_qty, low |-> is_low(items[id])]

GetItemsBody ==
    [NoBody EXCEPT !.items = [i \in 1..Cardinality(DOMAIN items) |->
                                ItemOut(IdSeq(DOMAIN items)[i])]]

active_all == DOMAIN manual

\* ManualList.query.filter_by(completed=False)
active == {m \in DOMAIN manual : ~manual[m].completed}

LowIds == {i \in DOMAIN items : is_low(items[i])}

\* The auto list of shopping_list.
AutoList ==
    LET low == IdSeq(LowIds)
    IN [i \in 1..Len(low) |->
          [id |-> low[i],
           max_qty |-> items[low[i]].max_qty,
           suggested_qty |-> suggested_qty(items[low[i]])]]

-----------------------------------------------------------------------------
(* Input sets of the requests *)

ItemKeys == {"name", "category", "max_qty", "current_qty", "threshold_percent"}

\* The last payload is {"name": "Milk", "max_qty": 6.8, "current_qty": 1.73}.
AddPayloads ==
    [name : {Absent, Str("Milk")},
     category : {Absent},
     max_qty : {Absent, Null, Num(-1), Num(2)},
     current_qty : {Absent, Num(1), Str("abc")},
     threshold_percent : {Absent}]
    \cup
    {[name |-> Str("Milk"), category |-> Absent, max_qty |-> D6_8,
      current_qty |-> D1_73, threshold_percent |-> Absent]}

NoFields ==
    [name |-> Absent, category |-> Absent, max_qty |-> Absent,
     current_qty |-> Absent, threshold_percent |-> Absent]

\* Partial payloads: no field, one field, and current_qty with another field.
UpdatePayloads ==
    {NoFields}
    \cup {[NoFields EXCEPT !.name = v] : v \in {Null, Str("Oat milk")}}
    \cup {[NoFields EXCEPT !.category = Str("Dairy")]}
    \cup {[NoFields EXCEPT !.max_qty = v] : v \in {Null, Num(50)}}
    \cup {[NoFields EXCEPT !.current_qty = v] : v \in {Null, Num(3)}}
    \cup {[NoFields EXCEPT !.threshold_percent = Num(100)]}
    \cup {[NoFields EXCEPT !.category = Str("Dairy"), !.current_qty = Num(3)],
          [NoFields EXCEPT !.max_qty = Num(50), !.current_qty = Num(3)]}

ManualPayloads ==
    [name : {Absent, Str("Salt")},
     qty : {Absent, Null, Num(2)},
     regular : {Absent, JTrue}]

\* Requests on an Item, requests on a ManualList entry, and one request that
\* names both.
BoughtPayloads ==
    [manual_id : {Absent},
     item_id : {Absent, Num(0), Num(1), Num(2)},
     add_qty : {Absent, Null, Num(1)}]
    \cup
    [manual_id : {Num(1), Num(2)}, item_id : {Absent}, add_qty : {Absent}]
    \cup
    {[manual_id |-> Num(1), item_id |-> Num(1), add_qty |-> Num(1)]}

RequestIds == {1, 2}

-----------------------------------------------------------------------------
(* API routes *)

get_items(w) ==
    /\ Idle(w)
    /\ IF \A i \in DOMAIN items : percent_left_ok(items[i])
       THEN Serve("get_items", 200, 0, GetItemsBody)
       ELSE Serve("get_items", 500, 0, NoBody)
    /\ UNCHANGED store

\* float() or the INSERT (name is NOT NULL) fails, or the commit stores the row.
add_item(w, data) ==
    /\ Idle(w)
    /\ LET id == NextId(items)
           ok == /\ FloatOk(Get(data, "max_qty", Num(0)))
                 /\ FloatOk(Get(data, "current_qty", Num(0)))
                 /\ FloatOk(Get(data, "threshold_percent", Num(20)))
                 /\ Get(data, "name", Null) # Null
           it == [name |-> Get(data, "name", Null),
                  category |-> Get(data, "category", Str("Other")),
                  max_qty |-> float(Get(data, "max_qty", Num(0))),
                  current_qty |-> float(Get(data, "current_qty", Num(0))),
                  threshold_percent |-> float(Get(data, "threshold_percent", Num(20))),
                  last_updated |-> Now]
       IN IF ok
          THEN /\ items' = (id :> it) @@ items
               /\ Begin(w, "reload", Request("add_item", id, Absent),
                        [NoSession EXCEPT !.committed = TRUE])
          ELSE /\ items' = items
               /\ Serve("add_item", 500, 0, NoBody)
    /\ UNCHANGED <<manual, transactions>>

\* it.id after the commit: the commit has expired the object, and the attribute
\* is loaded again by a SELECT of the row, which fails if the row is gone.
add_item_reload(w) ==
    /\ pc[w] = "reload"
    /\ req[w].op = "add_item"
    /\ UNCHANGED store
    /\ IF req[w].id \in DOMAIN items
       THEN Finish(w, 201, req[w].id, NoBody)
       ELSE Finish(w, 500, 0, NoBody)

\* for k in (...): if k in data: setattr(it, k, data[k])
SetAttrs(it, data) ==
    [k \in DOMAIN it |->
        IF k \in ItemKeys /\ Has(data, k) THEN data[k] ELSE it[k]]

\* The commit of line 101 fails on a NULL name (nullable=False).
FlushOk(it) == it.name # Null

update_change_delta(it, data) == fsub(float(data.current_qty), it.current_qty)

\* change_amount=float(data['current_qty'])
update_change_amount(it, data) == float(data.current_qty)

\* get_or_404 and the setattr loop.
update_item(w, item_id, data) ==
    /\ Idle(w)
    /\ UNCHANGED store
    /\ IF item_id \notin DOMAIN items
       THEN Serve("update_item", 404, item_id, NoBody)
       ELSE Begin(w, "flush", Request("update_item", item_id, data),
                  [NoSession EXCEPT
                     !.old = items[item_id],
                     !.it = [SetAttrs(items[item_id], data)
                               EXCEPT !.last_updated = Now]])

\* The first db.session.commit(): UPDATE item SET the changed columns WHERE
\* id = item_id.  It fails if no row has that id any more, or on a NULL name.
update_item_commit(w) ==
    /\ pc[w] = "flush"
    /\ req[w].op = "update_item"
    /\ UNCHANGED <<manual, transactions>>
    /\ LET id == req[w].id
       IN IF id \notin DOMAIN items \/ ~FlushOk(sess[w].it)
          THEN /\ items' = items
               /\ Finish(w, 500, id, NoBody)
          ELSE /\ items' = [items EXCEPT
                     ![id] = Written(@, sess[w].old, sess[w].it)]
               /\ IF Has(req[w].data, "current_qty")
                  THEN Goto(w, "reload", [NoSession EXCEPT !.committed = TRUE])
                  ELSE Finish(w, 200, id, NoBody)

\* Transaction(item_id=it.id, change_amount=float(data['current_qty']), ...):
\* it.id loads the row again, float() fails on null.
update_item_reload(w) ==
    /\ pc[w] = "reload"
    /\ req[w].op = "update_item"
    /\ UNCHANGED store
    /\ LET id == req[w].id
       IN IF id \notin DOMAIN items \/ ~FloatOk(req[w].data.current_qty)
          THEN Finish(w, 500, id, NoBody)
          ELSE Goto(w, "log",
                    [sess[w] EXCEPT
                       !.added = update_change_amount(items[id], req[w].data)])

\* db.session.add(t) and the second db.session.commit().
update_item_log(w) ==
    /\ pc[w] = "log"
    /\ UNCHANGED <<items, manual>>
    /\ transactions' = Append(transactions,
           Transaction(req[w].id, sess[w].added, "update"))
    /\ Finish(w, 200, req[w].id, NoBody)

delete_cascade(item_id) ==
    SelectSeq(transactions, LAMBDA t : t.item_id # item_id)

\* db.session.delete(it): no relationship is declared, the Transaction rows stay.
delete_transactions(item_id) == transactions

\* get_or_404
delete_item(w, item_id) ==
    /\ Idle(w)
    /\ UNCHANGED store
    /\ IF item_id \notin DOMAIN items
       THEN Serve("delete_item", 404, item_id, NoBody)
       ELSE Begin(w, "flush", Request("delete_item", item_id, Absent), NoSession)

\* db.session.commit(): DELETE FROM item WHERE id = item_id.  When no row has
\* that id any more the mapper (confirm_deleted_rows) warns and the commit
\* succeeds.
delete_item_commit(w) ==
    /\ pc[w] = "flush"
    /\ req[w].op = "delete_item"
    /\ items' = [i \in DOMAIN items \ {req[w].id} |-> items[i]]
    /\ transactions' = delete_transactions(req[w].id)
    /\ manual' = manual
    /\ Finish(w, 200, req[w].id, NoBody)

\* Item.query.all() and the auto list.
shopping_list(w) ==
    /\ Idle(w)
    /\ UNCHANGED store
    /\ Begin(w, "manual", Request("shopping_list", 0, Absent),
             [NoSession EXCEPT !.auto = AutoList])

\* ManualList.query.filter_by(completed=False).all()
shopping_list_manual(w) ==
    /\ pc[w] = "manual"
    /\ UNCHANGED store
    /\ Finish(w, 200, 0,
              [NoBody EXCEPT !.auto = sess[w].auto, !.manual = IdSeq(active)])

\* data['name'], float() or the INSERT (item_name is NOT NULL) fails, or the
\* commit stores the row.
manual_add(w, data) ==
    /\ Idle(w)
    /\ LET id == NextId(manual)
           ok == /\ Has(data, "name")
                 /\ FloatOk(Get(data, "qty", Num(1)))
                 /\ data.name # Null
           m == [item_name |-> data.name,
                 qty |-> float(Get(data, "qty", Num(1))),
                 regular |-> bool(Get(data, "regular", JFalse)),
                 completed |-> FALSE]
       IN IF ok
          THEN /\ manual' = (id :> m) @@ manual
               /\ Begin(w, "reload", Request("manual_add", id, Absent),
                        [NoSession EXCEPT !.committed = TRUE])
          ELSE /\ manual' = manual
               /\ Serve("manual_add", 500, 0, NoBody)
    /\ UNCHANGED <<items, transactions>>

\* m.id after the commit loads the row again; no handler deletes it.
manual_add_reload(w) ==
    /\ pc[w] = "reload"
    /\ req[w].op = "manual_add"
    /\ UNCHANGED store
    /\ Finish(w, 201, req[w].id, NoBody)

\* it.max_qty - it.current_qty raises TypeError when either is None; Python
\* evaluates this default argument whether or not add_qty is given.
DefaultOk(it) == IsNum(it.max_qty) /\ IsNum(it.current_qty)

bought_amount_full(it, data) ==
    float(Get(data, "add_qty", it.max_qty))

bought_amount_none(it, data) ==
    float(Get(data, "add_qty", Num(0)))

\* added = float(data.get('add_qty', it.max_qty - it.current_qty))
bought_amount(it, data) ==
    float(Get(data, "add_qty", fsub(it.max_qty, it.current_qty)))

\* m.completed = True
mark_completed(m) == [m EXCEPT !.completed = TRUE]

\* if data.get('manual_id')
OnManual(data) == Truthy(Get(data, "manual_id", Null))

\* get_or_404 and the change of the loaded object.
mark_bought(w, data) ==
    /\ Idle(w)
    /\ UNCHANGED store
    /\ IF OnManual(data)
       THEN LET id == data.manual_id.n
            IN IF id \notin DOMAIN manual
               THEN Serve("mark_bought", 404, id, NoBody)
               ELSE Begin(w, "flush",
                          Request("mark_bought", id,
                                  [data EXCEPT !.item_id = Absent,
                                               !.add_qty = Absent]),
                          [NoSession EXCEPT
                             !.old = manual[id],
                             !.it = mark_completed(manual[id])])
       ELSE IF Truthy(Get(data, "item_id", Null))
       THEN LET id == data.item_id.n
            IN IF id \notin DOMAIN items
               THEN Serve("mark_bought", 404, id, NoBody)
               ELSE IF ~(DefaultOk(items[id])
                         /\ FloatOk(Get(data, "add_qty", Num(0))))
               THEN Serve("mark_bought", 500, id, NoBody)
               ELSE LET added == bought_amount(items[id], data)
                    IN Begin(w, "flush", Request("mark_bought", id, data),
                             [NoSession EXCEPT
                                !.old = items[id],
                                !.it = [items[id] EXCEPT
                                          !.current_qty = fadd(@, added),
                                          !.last_updated = Now],
                                !.added = added])
       ELSE Serve("mark_bought", 400, 0, NoBody)

\* db.session.commit() of mark_bought.  On a ManualList row: UPDATE manual_list
\* SET completed.  On an Item: UPDATE item SET the changed columns WHERE id =
\* item_id, which fails if no row has that id any more, and INSERT the
\* Transaction, in one database transaction.
mark_bought_commit(w) ==
    /\ pc[w] = "flush"
    /\ req[w].op = "mark_bought"
    /\ LET id == req[w].id
       IN IF OnManual(req[w].data)
          THEN /\ manual' = [manual EXCEPT
                     ![id] = Written(@, sess[w].old, sess[w].it)]
               /\ UNCHANGED <<items, transactions>>
               /\ Finish(w, 200, id, NoBody)
          ELSE IF id \notin DOMAIN items
          THEN /\ UNCHANGED store
               /\ Finish(w, 500, id, NoBody)
          ELSE /\ items' = [items EXCEPT
                     ![id] = Written(@, sess[w].old, sess[w].it)]
               /\ transactions' = Append(transactions,
                      Transaction(id, sess[w].added, "bought"))
               /\ manual' = manual
               /\ Finish(w, 200, id, NoBody)

get_low_items(w) ==
    /\ Idle(w)
    /\ LET low == IdSeq(LowIds)
       IN Serve("get_low_items", 200, 0,
                [NoBody EXCEPT !.low = [i \in 1..Len(low) |-> ItemOut(low[i])]])
    /\ UNCHANGED store

-----------------------------------------------------------------------------
(* The server *)

Init ==
    /\ items = <<>>
    /\ manual = <<>>
    /\ transactions = <<>>
    /\ nreq = 0
    /\ last = Response("none", 0, 0, NoBody, 0)
    /\ pc = [w \in Workers |-> "idle"]
    /\ req = [w \in Workers |-> NoRequest]
    /\ sess = [w \in Workers |-> NoSession]

Next ==
    \E w \in Workers :
        \/ get_items(w)
        \/ \E data \in AddPayloads : add_item(w, data)
        \/ add_item_reload(w)
        \/ \E item_id \in RequestIds, data \in UpdatePayloads :
              update_item(w, item_id, data)
        \/ update_item_commit(w)
        \/ update_item_reload(w)
        \/ update_item_log(w)
        \/ \E item_id \in RequestIds : delete_item(w, item_id)
        \/ delete_item_commit(w)
        \/ shopping_list(w)
        \/ shopping_list_manual(w)
        \/ \E data \in ManualPayloads : manual_add(w, data)
        \/ manual_add_reload(w)
        \/ \E data \in BoughtPayloads : mark_bought(w, data)
        \/ mark_bought_commit(w)
        \/ get_low_items(w)

Spec == Init /\ [][Next]_vars

\* The Item of the store, as add_item stores it for
\* {"name": "Milk", "max_qty": 10, "current_qty": 2}; the Item is low.
RaceItem ==
    [name |-> Str("Milk"), category |-> Str("Other"), max_qty |-> Num(10),
     current_qty |-> Num(2), threshold_percent |-> Num(20), last_updated |-> 0]

\* The ManualList entry of the store, as manual_add stores it for
\* {"name": "Salt"}.
RaceEntry ==
    [item_name |-> Str("Salt"), qty |-> Num(1), regular |-> FALSE,
     completed |-> FALSE]

InitRace ==
    /\ items = (1 :> RaceItem)
    /\ manual = (1 :> RaceEntry)
    /\ transactions = <<>>
    /\ nreq = 0
    /\ last = Response("none", 0, 0, NoBody, 0)
    /\ pc = [w \in Workers |-> "idle"]
    /\ req = [w \in Workers |-> NoRequest]
    /\ sess = [w \in Workers |-> NoSession]

SpecRace == InitRace /\ [][Next]_vars

-----------------------------------------------------------------------------
(* Properties *)

BodyIds(seq) == {seq[i].id : i \in DOMAIN seq}

Range(seq) == {seq[i] : i \in DOMAIN seq}

\* Worker w takes a request in this step.
Starts(w) == nreq' # nreq /\ Idle(w)

\* The i-th Transaction of the log is a 'bought' Transaction of Item 1.
BoughtOne(i) ==
    transactions[i].item_id = 1 /\ transactions[i].reason = "bought"

\* C1: two concurrent markBought requests on the same Item lose no update: once
\* both have completed, current_qty is the starting current_qty plus both added
\* amounts and the Item has exactly two 'bought' Transactions.  The two
\* requests of SpecRace have both been markBought on Item 1, and completed, when
\* the log holds two 'bought' Transactions of Item 1; the amounts they added
\* are the amounts logged.
C1_NoLostUpdate ==
    (/\ \A w \in Workers : pc[w] = "idle"
     /\ Len(transactions) = 2
     /\ BoughtOne(1)
     /\ BoughtOne(2))
    => items[1].current_qty =
          fadd(fadd(RaceItem.current_qty, transactions[1].change_amount),
               transactions[2].change_amount)

\* The requests that change an Item and log a Transaction: mark_bought on an
\* Item, and update_item with current_qty in the payload.
Logs(w) ==
    \/ req[w].op = "mark_bought" /\ ~OnManual(req[w].data)
    \/ req[w].op = "update_item" /\ Has(req[w].data, "current_qty")

\* C2: the change of the Item and the append of its Transaction are committed
\* together: in no committed state of the store is a request that logs a
\* Transaction in progress with its change of the Item committed and its
\* Transaction still to be appended.
C2_CommittedTogether ==
    \A w \in Workers : Logs(w) => ~sess[w].committed

\* C3: the Transaction log is append-only: every step keeps every existing
\* Transaction, with its fields, at its place in the log.
C3_AppendOnly ==
    [][/\ Len(transactions') >= Len(transactions)
       /\ \A i \in 1..Len(transactions) : transactions'[i] = transactions[i]]_vars

\* deleteItem has removed an Item whose Transactions are still in the log.
C3_Witness ==
    /\ last.op = "delete_item"
    /\ last.status = 200
    /\ last.id \notin DOMAIN items
    /\ \E i \in DOMAIN transactions : transactions[i].item_id = last.id

\* C4: a ManualListEntry is created with completed = false, is never deleted, and
\* changes only by markBought(manualId), which sets completed = true and appends
\* no Transaction; the manual list of getShoppingList is exactly the entries with
\* completed = false.
C4_ActiveToCompleted ==
    [][/\ \A m \in DOMAIN manual :
            /\ m \in DOMAIN manual'
            /\ manual'[m] # manual[m] =>
                  /\ manual'[m] = [manual[m] EXCEPT !.completed = TRUE]
                  /\ \E w \in Workers :
                        /\ mark_bought_commit(w)
                        /\ OnManual(req[w].data)
                        /\ req[w].id = m
                  /\ transactions' = transactions
       /\ \A m \in DOMAIN manual' \ DOMAIN manual :
            /\ ~manual'[m].completed
            /\ \E w \in Workers, data \in ManualPayloads : manual_add(w, data)
       /\ \A w \in Workers :
            (mark_bought_commit(w) /\ OnManual(req[w].data))
            => /\ manual'[req[w].id].completed
               /\ transactions' = transactions
               /\ last'.status = 200
       /\ \A w \in Workers :
            shopping_list_manual(w)
            => Range(last'.body.manual) =
                  {m \in DOMAIN manual' : ~manual'[m].completed}
      ]_vars

\* getShoppingList has answered while a completed entry exists, without it.
C4_Witness ==
    /\ last.op = "shopping_list"
    /\ \E m \in DOMAIN manual :
         manual[m].completed /\ m \notin Range(last.body.manual)

Untracked(i) == IsNum(items[i].max_qty) /\ ~fpos(items[i].max_qty)

\* C5: an Item with max_qty <= 0 has low = false in listItems and is absent from
\* listLowItems and from the auto list of getShoppingList, whatever its
\* current_qty and threshold_percent; an Item created without max_qty has
\* max_qty = 0.  Each listing is compared with the Items it has read.
C5_NeverLow ==
    [][/\ (last'.n # last.n /\ last'.op = "get_items") =>
            \A k \in DOMAIN last'.body.items :
               Untracked(last'.body.items[k].id) => ~last'.body.items[k].low
       /\ (last'.n # last.n /\ last'.op = "get_low_items") =>
            \A i \in DOMAIN items :
               Untracked(i) => i \notin BodyIds(last'.body.low)
       /\ \A w \in Workers :
            /\ (Starts(w) /\ shopping_list(w)) =>
                  \A i \in DOMAIN items :
                     Untracked(i) => i \notin BodyIds(sess'[w].auto)
            /\ shopping_list_manual(w) => last'.body.auto = sess[w].auto
            /\ Starts(w) =>
                  \A data \in AddPayloads :
                     (/\ add_item(w, data)
                      /\ ~Has(data, "max_qty")
                      /\ pc'[w] = "reload")
                     => items'[req'[w].id].max_qty = Num(0)
      ]_vars

\* listItems has answered with an Item of negative max_qty, not flagged low,
\* whose ratio current_qty / max_qty is at or below 20 / 100.
C5_Witness ==
    /\ last.op = "get_items"
    /\ last.status = 200
    /\ \E k \in DOMAIN last.body.items :
         /\ last.body.items[k].max_qty.n < 0
         /\ IsNum(last.body.items[k].current_qty)
         /\ fle(fdiv(last.body.items[k].current_qty, last.body.items[k].max_qty),
                fdiv(Num(20), Num(100)))
         /\ ~last.body.items[k].low

\* The request addresses an Item (no manual_id) that exists.
OnItem(data) ==
    /\ ~OnManual(data)
    /\ Truthy(Get(data, "item_id", Null))
    /\ data.item_id.n \in DOMAIN items

\* The commit of a markBought request on an Item that exists, with no addQty or
\* a numeric one.
BoughtCommit(w) ==
    /\ mark_bought_commit(w)
    /\ ~OnManual(req[w].data)
    /\ req[w].id \in DOMAIN items
    /\ req[w].data.add_qty.t \in {"absent", "num"}

\* C6 as stated: markItemBought(id) with no addQty on an existing Item sets
\* current_qty to exactly max_qty and appends exactly one Transaction with
\* item_id = id, reason "bought" and change_amount = max_qty minus the
\* current_qty before the call; with an explicit addQty it adds addQty to
\* current_qty and logs change_amount = addQty.  The quantities before the call
\* are those the call has read.
C6_MarkItemBought ==
    [][\A w \in Workers :
          BoughtCommit(w)
          => LET id == req[w].id
                 old == sess[w].old
                 data == req[w].data
             IN /\ last'.status = 200
                /\ IF ~Has(data, "add_qty")
                   THEN /\ items'[id].current_qty = old.max_qty
                        /\ transactions' = Append(transactions,
                              [item_id |-> id,
                               change_amount |-> fsub(old.max_qty, old.current_qty),
                               reason |-> "bought"])
                   ELSE /\ items'[id].current_qty =
                              fadd(old.current_qty, data.add_qty)
                        /\ transactions' = Append(transactions,
                              [item_id |-> id,
                               change_amount |-> data.add_qty,
                               reason |-> "bought"])
      ]_vars

\* The difference x - y is a double: the subtraction does not round.
ExactDiff(x, y) == fsub(x, y) = ExactSum(x, fneg(y))

\* C6 amended.  markItemBought(id) on an existing Item reads the Item; if its
\* max_qty or current_qty is null the call fails with 500 and changes nothing.
\* Otherwise, with no addQty or a numeric one, the amount is addQty, or without
\* addQty the float difference max_qty - current_qty of the quantities read, and
\* the commit sets current_qty to the float sum of the current_qty read and the
\* amount (it leaves current_qty as it is when that sum is the current_qty read)
\* and appends exactly one Transaction with item_id = id, reason "bought" and
\* the amount as change_amount.  With no addQty, on an Item no other request has
\* changed since the read, the new current_qty is max_qty whenever the
\* difference is exact, as it is for integer-valued quantities.  If the Item
\* has been deleted since the read the call fails with 500 and changes nothing.
C6_MarkItemBoughtRounded ==
    [][\A w \in Workers :
        /\ Starts(w) =>
           \A data \in BoughtPayloads :
              (mark_bought(w, data) /\ OnItem(data))
              => LET old == items[data.item_id.n]
                 IN IF ~(IsNum(old.max_qty) /\ IsNum(old.current_qty))
                    THEN last'.n # last.n /\ last'.status = 500
                    ELSE data.add_qty.t \in {"absent", "num"} =>
                         /\ pc'[w] = "flush"
                         /\ sess'[w].old = old
                         /\ sess'[w].added =
                               IF Has(data, "add_qty") THEN data.add_qty
                               ELSE fsub(old.max_qty, old.current_qty)
        /\ (mark_bought_commit(w) /\ ~OnManual(req[w].data))
           => LET id == req[w].id
                  old == sess[w].old
                  added == sess[w].added
                  new == fadd(old.current_qty, added)
              IN IF id \notin DOMAIN items
                 THEN last'.status = 500 /\ UNCHANGED store
                 ELSE /\ last'.status = 200
                      /\ items'[id].current_qty =
                            IF new # old.current_qty THEN new
                            ELSE items[id].current_qty
                      /\ transactions' = Append(transactions,
                            [item_id |-> id, change_amount |-> added,
                             reason |-> "bought"])
                      /\ (/\ ~Has(req[w].data, "add_qty")
                          /\ items[id] = old
                          /\ \/ ExactDiff(old.max_qty, old.current_qty)
                             \/ IsInt(old.max_qty) /\ IsInt(old.current_qty))
                         => items'[id].current_qty = old.max_qty
      ]_vars

\* markBought has topped up an Item of fractional quantities by the default
\* amount (the logged amount is not an integer, the explicit addQty of the
\* requests is) and the new current_qty is not max_qty.
C6_Witness ==
    /\ last.op = "mark_bought"
    /\ last.status = 200
    /\ last.id \in DOMAIN items
    /\ transactions # <<>>
    /\ LET t == transactions[Len(transactions)]
       IN /\ t.item_id = last.id /\ t.reason = "bought"
          /\ ~IsInt(t.change_amount)
          /\ IsNum(items[last.id].max_qty)
          /\ items[last.id].current_qty # items[last.id].max_qty

\* The commit of a markBought request with the default addQty on an Item that
\* exists and was low when the request read it.
TopUpOfLow(w) ==
    /\ mark_bought_commit(w)
    /\ ~OnManual(req[w].data)
    /\ ~Has(req[w].data, "add_qty")
    /\ req[w].id \in DOMAIN items
    /\ is_low(sess[w].old)

WellTyped(data) ==
    /\ data.name.t \in {"absent", "str"}
    /\ data.category.t \in {"absent", "str"}
    /\ \A k \in {"max_qty", "current_qty", "threshold_percent"} :
          data[k].t \in {"absent", "num"}

\* The step answers 500.
Fails == last'.n # last.n /\ last'.status = 500

\* C8: updateItem on an existing Item changes only the fields present in the
\* payload (and last_updated) and appends a Transaction if and only if
\* current_qty is among them.  Its first commit changes the Item only: it sets
\* the fields of the payload whose value differs from the value read, all of
\* them on an Item no other request has changed since the read, leaves the
\* other fields, the other Items and the log as they are, and answers 200 when
\* current_qty is not in the payload.  With current_qty in the payload the
\* second commit appends exactly one Transaction, with reason "update" and
\* change_amount = the new current_qty, and answers 200.  While the Item exists
\* no step fails on a payload whose values have the types of the data model.
C8_UpdateFrame ==
    [][\A w \in Workers :
        /\ Starts(w) =>
           \A id \in RequestIds, data \in UpdatePayloads :
              (update_item(w, id, data) /\ id \in DOMAIN items)
              => pc'[w] = "flush" /\ UNCHANGED store
        /\ update_item_commit(w) =>
              LET id == req[w].id
                  data == req[w].data
                  old == sess[w].old
              IN /\ transactions' = transactions
                 /\ manual' = manual
                 /\ (WellTyped(data) /\ id \in DOMAIN items) => ~Fails
                 /\ Fails => items' = items
                 /\ ~Fails =>
                      /\ DOMAIN items' = DOMAIN items
                      /\ \A i \in DOMAIN items \ {id} : items'[i] = items[i]
                      /\ \A k \in ItemKeys :
                            items'[id][k] =
                               IF Has(data, k) /\ (data[k] # old[k] \/ items[id] = old)
                               THEN data[k] ELSE items[id][k]
                      /\ IF Has(data, "current_qty")
                         THEN pc'[w] = "reload"
                         ELSE last'.n # last.n /\ last'.status = 200
        /\ update_item_reload(w) =>
              /\ UNCHANGED store
              /\ (WellTyped(req[w].data) /\ req[w].id \in DOMAIN items) => ~Fails
              /\ ~Fails => pc'[w] = "log"
        /\ update_item_log(w) =>
              /\ Has(req[w].data, "current_qty")
              /\ items' = items
              /\ manual' = manual
              /\ transactions' = Append(transactions,
                    [item_id |-> req[w].id,
                     change_amount |-> req[w].data.current_qty,
                     reason |-> "update"])
              /\ last'.status = 200
      ]_vars

\* updateItem has set current_qty of an Item whose current_qty was not 3 before
\* and logged the new value.
C8_Witness ==
    /\ last.op = "update_item"
    /\ last.status = 200
    /\ last.id \in DOMAIN items
    /\ transactions # <<>>
    /\ transactions[Len(transactions)] =
          [item_id |-> last.id, change_amount |-> Num(3), reason |-> "update"]
    /\ items[last.id].current_qty = Num(3)

\* C9: every operation that fails (a status other than 200 and 201) leaves the
\* Items, the ManualListEntries and the Transactions as they were: the request
\* that answers has committed no change, and its last step makes none.
C9_FailureLeavesStore ==
    [][(last'.n # last.n /\ last'.status \notin {200, 201})
       => /\ UNCHANGED store
          /\ \A w \in Workers :
                (pc[w] # "idle" /\ pc'[w] = "idle") => ~sess[w].committed
      ]_vars

\* C10: createItem without a name, manualAdd without a name and markBought with
\* neither manual_id nor item_id answer with a ValidationError (400).
C10_ValidationError ==
    [][\A w \in Workers :
        /\ \A data \in AddPayloads :
              (add_item(w, data) /\ ~Has(data, "name"))
              => last'.n # last.n /\ last'.status = 400
        /\ \A data \in ManualPayloads :
              (manual_add(w, data) /\ ~Has(data, "name"))
              => last'.n # last.n /\ last'.status = 400
        /\ \A data \in BoughtPayloads :
              (/\ mark_bought(w, data)
               /\ ~Has(data, "manual_id") /\ ~Has(data, "item_id"))
              => last'.n # last.n /\ last'.status = 400
      ]_vars

====
